---- MODULE Spec2Model ----
(***************************************************************************)
(* Model of the local persistence layer of the chat client:                *)
(*   - LocalDatabase (src/src/lib/localDb.ts): the IndexedDB wrapper with  *)
(*     the two object stores 'settings' and 'messages';                    *)
(*   - the callers of its count query: useMessages.getMessageCount         *)
(*     (src/src/hooks/useMessages.ts) and getStorageInfo                   *)
(*     (src/src/components/SettingsModal.tsx), and useMessages.addMessage, *)
(*     which feeds the in-memory list those callers fall back to;          *)
(*   - useSettings (src/unnamed/part_000): loadSettings and updateSettings *)
(*     over the flat localStorage backup, the 'settings' store and the     *)
(*     remote user_settings row;                                           *)
(*   - App.sendMessage (src/src/App.tsx): the user message, the fetch of   *)
(*     the completion and the assistant message or the error.              *)
(*                                                                         *)
(* Every method of LocalDatabase is asynchronous: a call first awaits      *)
(* openDB(), then creates one transaction and issues its requests; each    *)
(* request is answered by an onsuccess or an onerror event.  A call is a   *)
(* record in `txQueue` whose pc names the request it is waiting for.       *)
(* IndexedDB runs transactions whose scopes overlap one after the other in *)
(* creation order when one of them is readwrite: `txQueue` is that order.  *)
(* An unhandled request error aborts the transaction, which undoes its     *)
(* writes.                                                                 *)
(* A hook that awaits a call is a process (`loadP`, `updP`, an entry of    *)
(* `sends`) that takes the settled call from `answer` and goes on in a     *)
(* later step.                                                             *)
(***************************************************************************)
EXTENDS Integers, Sequences, FiniteSets, TLC

\* ------------------------------------------------------------------ bounds
MaxTime  == 1     \* the clock runs 0..MaxTime
MaxMsgs  == 2     \* rows the messages store may hold

\* ------------------------------------------------------- program constants
total == 2        \* clearAllData: const total = 2

Users == {"u1", "u2"}

\* the calls in flight at once: two, so that any two methods can overlap
Slots == {1, 2}

MaxInFlight == Cardinality(Slots)

\* settings values handed to saveSettings: { api_key, base_url, model }
SettingsVals ==
  { [api_key |-> "A", base_url |-> "https://api.x.ai", model |-> "auto"],
    [api_key |-> "B", base_url |-> "http://alt", model |-> "grok-2-latest"] }

NoSettings == [api_key |-> "", base_url |-> "", model |-> ""]

\* message timestamps a caller may hand to saveMessage: one below 0, the
\* clock's first and last value, and one the clock never reaches
TsValues == {0 - 1, 0, MaxTime, MaxTime + 1}

\* limit arguments of loadMessages(userId, limit?)
LimitValues == 0..MaxMsgs

\* primary keys of the rows
MsgIds      == 1..MaxMsgs
SettingsIds == 1..Cardinality(Users)

VARIABLES
  supported,    \* LocalDatabase.isSupported(): typeof indexedDB !== 'undefined'
  clock,        \* Date.now() / new Date()
  settingsStore,\* rows of the object store 'settings'
  msgStore,     \* rows of the object store 'messages'
  answer,       \* the call the last step settled, with what it answered
                \* (IdleCall when the last step settled none)
  txQueue,      \* the calls in flight, each with its live transaction, in
                \* the order the transactions were created
  memMessages,  \* useMessages: the `messages` state
  lastSaved,    \* history: per user, the argument of the last resolved
                \* saveSettings with no later write to the user's settings
                \* (NoSettings if there is none)
  emptied,      \* history: per user, deleteMessages resolved and no message
                \* of the user was stored since
  wiped,        \* history: clearAllData resolved and nothing was written since
  savedOrder,   \* history: ids of the stored messages in the order of their saves
  settings,     \* useSettings: the `settings` state
  isLoading,    \* useSettings: the `isLoading` state
  flat,         \* localStorage: how it answers, and the blob under
                \* 'grok-chat-settings'
  remote,       \* supabase: whether it is configured, and the row of the
                \* user in 'user_settings'
  loadP,        \* useSettings.loadSettings: where the call is, and its locals
  updP,         \* useSettings.updateSettings: where the call is, and its locals
  sends,        \* App.sendMessage: the calls, in the order they were made
  app,          \* App: the `error`, `isSettingsOpen` and `isLoading` states,
                \* and the `isLoading` of useMessages it renders from
  taskP         \* the call of useMessages.loadMessages, addMessages or
                \* clearMessages, or of handleClearData, in progress

\* the state of the hooks and of App
hookVars == <<settings, isLoading, flat, remote, loadP, updP, sends, app,
              taskP>>

vars == <<supported, clock, settingsStore, msgStore, answer, txQueue,
          memMessages, lastSaved, emptied, wiped, savedOrder, hookVars>>

\* --------------------------------------------------------------- the calls
\* no response of the completion endpoint
NoResponse ==
  [kind |-> "none", status |-> "", content |-> "", errorMessage |-> "",
   message |-> "", statusText |-> ""]

IdleCall ==
  [ op |-> "none", caller |-> "direct", user |-> "u1",
    sv |-> NoSettings, role |-> "user", content |-> "", ts |-> 0, hasLimit |-> FALSE, limit |-> 0,
    id |-> 0, now |-> 0, pc |-> "idle", settle |-> "none", fault |-> FALSE,
    rows |-> <<>>, found |-> {}, count |-> 0,
    completed |-> 0, reqS |-> "none", reqM |-> "none", undo |-> {},
    memLen |-> 0, wsettle |-> "none", wcount |-> 0, wtext |-> "", proc |-> 0,
    response |-> NoResponse ]

\* the stores a method's transaction names, and its mode
Scope(op) ==
  CASE op \in {"saveMessage", "loadMessages", "deleteMessages", "getMessageCount"}
         -> {"messages"}
    [] op \in {"saveSettings", "loadSettings", "deleteSettings"} -> {"settings"}
    [] op = "clearAllData" -> {"settings", "messages"}
    [] OTHER -> {}

ReadWrite(op) ==
  op \in {"saveMessage", "deleteMessages", "saveSettings", "deleteSettings",
          "clearAllData"}

\* the methods that read the clock (new Date(), Date.now()) once openDB has
\* answered
ReadsClock(op) == op \in {"loadMessages", "saveSettings"}

\* the first request a method issues on its transaction
FirstRequest(op) ==
  CASE op = "saveMessage"     -> "add"
    [] op = "loadMessages"    -> "cursor"
    [] op = "deleteMessages"  -> "delcursor"
    [] op = "getMessageCount" -> "count"
    [] op = "saveSettings"    -> "get"
    [] op = "loadSettings"    -> "lget"
    [] op = "deleteSettings"  -> "dget"
    [] op = "clearAllData"    -> "clearS"
    [] OTHER -> "done"

\* IndexedDB transaction scheduling: the transaction at position i may run its
\* next request when no transaction created before it has an overlapping
\* scope with either of the two being readwrite
Conflict(earlier, later) ==
  /\ Scope(earlier.op) \cap Scope(later.op) # {}
  /\ ReadWrite(earlier.op) \/ ReadWrite(later.op)

CanRun(i) == \A j \in 1..(i - 1) : ~Conflict(txQueue[j], txQueue[i])

\* the transaction at position i has ended
Dequeue(i) == SubSeq(txQueue, 1, i - 1) \o SubSeq(txQueue, i + 1, Len(txQueue))

RemoveIds(seq, ids) == SelectSeq(seq, LAMBDA i : i \notin ids)

\* ------------------------------------------------ the callers' outcomes
\* useMessages.getMessageCount returning 0 where it returns messages.length
HookGetMessageCountZero(r) ==
  [r EXCEPT !.wsettle = "resolved",
            !.wcount = IF r.settle = "resolved" THEN r.count ELSE 0]

\* useMessages.getMessageCount: messages.length when IndexedDB is not
\* supported; else the count of localDb.getMessageCount, or messages.length
\* from the catch.  r.memLen is messages.length as the call's closure sees it.
HookGetMessageCount(r) ==
  [r EXCEPT !.wsettle = "resolved",
            !.wcount = IF r.settle = "resolved" THEN r.count ELSE r.memLen]

\* SettingsModal getStorageInfo
GetStorageInfo(r) ==
  CASE r.settle = "resolved" ->
         [r EXCEPT !.wsettle = "resolved", !.wcount = r.count,
                   !.wtext = "messages stored"]
    [] r.settle = "rejected" ->
         [r EXCEPT !.wsettle = "resolved", !.wtext = "IndexedDB + localStorage"]
    [] OTHER ->
         [r EXCEPT !.wsettle = "resolved", !.wtext = "localStorage only"]

\* addMessage lets the failure of the write through
AddMessageRethrows(r) == [r EXCEPT !.wsettle = r.settle]

\* useMessages.addMessage, after the write to the store (if any): the catch
\* logs, so the call resolves either way
AddMessageOutcome(r) == [r EXCEPT !.wsettle = "resolved"]

\* a direct call of a LocalDatabase method: the caller sees its promise
DirectOutcome(r) == [r EXCEPT !.wsettle = r.settle, !.wcount = r.count]

Outcome(r) ==
  CASE r.caller = "hook" /\ r.op = "getMessageCount" -> HookGetMessageCount(r)
    [] r.caller \in {"hook", "send"} /\ r.op = "saveMessage"
                                                     -> AddMessageOutcome(r)
    [] r.caller = "modal"                            -> GetStorageInfo(r)
    [] OTHER                                         -> DirectOutcome(r)

\* the promise of a LocalDatabase method resolves / rejects (every method:
\* onerror -> reject(request.error); catch -> console.error, throw); a
\* promise that has settled already stays as it is
Settled(r, settle) ==
  [r EXCEPT !.pc = "done",
            !.settle = IF r.settle = "none" THEN settle ELSE r.settle]

Resolved(r) == Outcome(Settled(r, "resolved"))

Rejected(r) == Outcome([Settled(r, "rejected") EXCEPT !.fault = TRUE])

\* a caller that found isSupported() false and called no method of localDb
NotCalled(r) == Outcome([r EXCEPT !.pc = "done"])

\* ------------------------------------------------- the hooks' awaits
\* getUserId(): the one identifier of the browser profile
UserId == "u1"

Fields == {"apiKey", "baseUrl", "model"}

DEFAULT_SETTINGS == [apiKey |-> "", baseUrl |-> "https://api.x.ai", model |-> "auto"]

\* values of the type Settings that occur: the defaults with the key "A",
\* two values that differ from the defaults in other fields too, and one
\* with an empty key
SettingsA == [apiKey |-> "A", baseUrl |-> "https://api.x.ai", model |-> "auto"]

SettingsB == [apiKey |-> "B", baseUrl |-> "http://alt", model |-> "grok-2-latest"]

SettingsC == [apiKey |-> "C", baseUrl |-> "https://api.x.ai", model |-> "grok-2-latest"]

SettingsE == [apiKey |-> "", baseUrl |-> "http://alt", model |-> "auto"]

\* saveLocalDbSettings: { api_key: settings.apiKey, base_url: ..., model: ... }
FromSettings(s) == [api_key |-> s.apiKey, base_url |-> s.baseUrl, model |-> s.model]

\* loadLocalDbSettings / loadSettings: { apiKey: data.api_key, ... }
ToSettings(row) == [apiKey |-> row.api_key, baseUrl |-> row.base_url, model |-> row.model]

\* JSON.stringify(settings): the blob as the set of its name/value pairs
Stringify(s) == [kind |-> "json", pairs |-> {<<f, s[f]>> : f \in Fields}]

NoBlob == [kind |-> "absent", pairs |-> {}]

CorruptBlob == [kind |-> "corrupt", pairs |-> {}]

\* getUserId(): localStorage.getItem throws when the storage is denied
GetUserIdThrows(ls) == ls.mode = "denied"

\* loadLocalSettings(): { ...DEFAULT_SETTINGS, ...parsed }, or the defaults
\* when nothing is stored, getItem throws or JSON.parse throws
LoadLocalSettings(ls) ==
  IF ls.mode = "denied" \/ ls.blob.kind # "json"
    THEN DEFAULT_SETTINGS
    ELSE [f \in Fields |->
            IF \E pr \in ls.blob.pairs : pr[1] = f
              THEN (CHOOSE pr \in ls.blob.pairs : pr[1] = f)[2]
              ELSE DEFAULT_SETTINGS[f]]

\* saveLocalSettings that writes nothing
SaveLocalSettingsSkipped(ls, s) == ls

\* saveLocalSettings(settings): setItem, whose error is logged
SaveLocalSettings(ls, s) ==
  IF ls.mode = "ok" THEN [ls EXCEPT !.blob = Stringify(s)] ELSE ls

\* loadLocalDbSettings(userId) once localDb.loadSettings has settled: the
\* row as Settings, or null ({}) when there is none or the call rejected
LoadLocalDbSettingsResult(call) ==
  IF call.settle = "resolved"
    THEN {ToSettings(row) : row \in call.found}
    ELSE {}

HasApiKey(maybe) == \E s \in maybe : s.apiKey # ""

\* fallbackSettings that stays the flat-backup value when that has a key
FallbackPrefersFlat(localSettings, localDbSettings) ==
  IF localSettings.apiKey = "" /\ HasApiKey(localDbSettings)
    THEN CHOOSE s \in localDbSettings : TRUE
    ELSE localSettings

\* loadSettings: fallbackSettings
FallbackSettings(localSettings, localDbSettings) ==
  IF HasApiKey(localDbSettings)
    THEN CHOOSE s \in localDbSettings : TRUE
    ELSE localSettings

\* loadSettings, in the catch:
\* localDbSettings && localDbSettings.apiKey ? localDbSettings : localSettings
CatchSettings(localSettings, localDbSettings) ==
  IF HasApiKey(localDbSettings)
    THEN CHOOSE s \in localDbSettings : TRUE
    ELSE localSettings

IdleLoad ==
  [ pc |-> "idle", localSettings |-> DEFAULT_SETTINGS, localDbSettings |-> {},
    fallbackSettings |-> DEFAULT_SETTINGS, readOk |-> FALSE, syncOk |-> FALSE,
    remote |-> "none", raised |-> FALSE, reloaded |-> FALSE ]

IdleUpdate ==
  [ pc |-> "idle", newSettings |-> DEFAULT_SETTINGS, writeOk |-> FALSE,
    steps |-> <<>>, upsert |-> "none", raised |-> FALSE ]

IdleApp ==
  [ error |-> <<>>, isSettingsOpen |-> FALSE, isLoading |-> FALSE,
    isLoadingMessages |-> TRUE ]

IdleTask ==
  [ op |-> "none", pc |-> "idle", batch |-> <<>>, next |-> 0, ok |-> FALSE,
    rows |-> <<>> ]

\* the awaited call of loadSettings has settled
LoadReceive(p, call) ==
  IF call.caller # "load" \/ call.pc # "done" THEN p
  ELSE CASE p.pc = "dbRead" ->
              [p EXCEPT !.pc = "readDone",
                        !.localDbSettings = LoadLocalDbSettingsResult(call),
                        !.readOk = (call.settle = "resolved")]
         [] p.pc = "catchRead" ->
              [p EXCEPT !.pc = "catchDone",
                        !.localDbSettings = LoadLocalDbSettingsResult(call),
                        !.readOk = (call.settle = "resolved")]
         [] p.pc = "sync" ->
              [p EXCEPT !.pc = "syncDone", !.syncOk = (call.settle = "resolved")]
         [] OTHER -> p

\* the awaited call of updateSettings has settled
UpdateReceive(p, call) ==
  IF call.caller # "update" \/ call.pc # "done" THEN p
  ELSE IF p.pc = "dbWrite"
         THEN [p EXCEPT !.pc = "written",
                        !.writeOk = (call.settle = "resolved"),
                        !.steps = Append(p.steps, "store")]
         ELSE p

\* the awaited addMessage of a sendMessage has settled
SendReceive(p, call) ==
  CASE p.pc = "saveUser" -> [p EXCEPT !.pc = "userSaved"]
    [] p.pc = "saveAssistant" -> [p EXCEPT !.pc = "assistantSaved"]
    [] OTHER -> p

SendsReceive(ps, call) ==
  IF call.caller # "send" \/ call.pc # "done" THEN ps
  ELSE [ps EXCEPT ![call.proc] = SendReceive(ps[call.proc], call)]

\* the awaited call of a task has settled
TaskReceive(p, call) ==
  IF call.caller # "task" \/ call.pc # "done" \/ p.pc # "await" THEN p
  ELSE [p EXCEPT !.pc = "settled", !.ok = (call.settle = "resolved"),
                 !.rows = call.rows]

\* a promise of localDb settles: the hook that awaits it takes the result
\* and goes on in a later task
PromiseSettles ==
  /\ loadP' = LoadReceive(loadP, answer')
  /\ updP' = UpdateReceive(updP, answer')
  /\ sends' = SendsReceive(sends, answer')
  /\ taskP' = TaskReceive(taskP, answer')
  /\ UNCHANGED <<settings, isLoading, flat, remote, app>>

\* ------------------------------------------------------------- the clock
Tick ==
  /\ clock < MaxTime
  /\ clock' = clock + 1
  /\ answer' = IdleCall
  /\ PromiseSettles
  /\ UNCHANGED <<supported, settingsStore, msgStore, txQueue,
                 memMessages, lastSaved, emptied, wiped, savedOrder>>

\* ------------------------------------------------------------- openDB
\* A method is called with the arguments in r and `await this.openDB()`
\* answers.  On success the method goes on in the same task: it creates its
\* transaction, reads the clock (saveSettings for created_at and updated_at,
\* loadMessages for the upper end of its range) and issues its first request.
\* On failure (always, when indexedDB is undefined) the method's catch
\* rethrows.  Nothing the method does before openDB answers touches the
\* state, so the call and the answer are one step.
OpenDB(r) ==
  /\ Len(txQueue) < MaxInFlight
  /\ \E ok \in BOOLEAN :
       IF ok /\ supported
         THEN /\ txQueue' = Append(txQueue,
                   [r EXCEPT !.pc = FirstRequest(r.op),
                             !.now = IF ReadsClock(r.op) THEN clock ELSE 0])
              /\ answer' = IdleCall
         ELSE /\ answer' = Rejected(r)
              /\ UNCHANGED txQueue

\* ------------------------------------------------------------- messages
\* crypto.randomUUID(): a value no row of the store has.  A method draws its
\* id before it issues the request that writes the row and nothing reads the
\* id in between, so the model draws it when the request is answered.  The
\* ids of message rows order the rows of equal timestamp, so any unused one
\* may be drawn; the ids of settings rows are only compared for equality, so
\* the least unused one stands for any.
FreshMessageIds == MsgIds \ {r.id : r \in msgStore}

FreshSettingsId ==
  LET unused == SettingsIds \ {r.id : r \in settingsStore}
  IN  IF unused = {} THEN 0 ELSE CHOOSE i \in unused : \A j \in unused : i <= j

\* the row saveMessage builds (its created_at, which no method reads and no
\* index covers, is left out)
MessageData(r) ==
  [ id |-> r.id, user_id |-> r.user, role |-> r.role, content |-> r.content,
    timestamp |-> r.ts ]

\* a range without its upper end
InRangeOpenEnded(row, userId, now) ==
  /\ row.user_id = userId
  /\ 0 <= row.timestamp

\* IDBKeyRange.bound([userId, 0], [userId, Date.now()]) on 'user_timestamp'
InRange(row, userId, now) ==
  /\ row.user_id = userId
  /\ 0 <= row.timestamp
  /\ row.timestamp <= now

\* a cursor opened on the store instead of the index: rows by primary key
KeyLessByKey(a, b) == a.id < b.id

\* the order of the index 'user_timestamp' within one user: by timestamp,
\* rows of equal timestamp by primary key
KeyLess(a, b) ==
  \/ a.timestamp < b.timestamp
  \/ a.timestamp = b.timestamp /\ a.id < b.id

FirstRow(S) == CHOOSE r \in S : \A q \in S \ {r} : KeyLess(r, q)

\* `!limit`: limit undefined, or 0
NoLimit(hasLimit, limit) == ~hasLimit \/ limit = 0

\* the cursor's onsuccess events of loadMessages, to the resolve
RECURSIVE CursorLoop(_, _, _, _)
CursorLoop(ahead, hasLimit, limit, messages) ==
  IF ahead = {}
    THEN messages
    ELSE LET row    == FirstRow(ahead)
             pushed == Append(messages, row)
         IN  IF NoLimit(hasLimit, limit) \/ Len(pushed) < limit
               THEN CursorLoop(ahead \ {row}, hasLimit, limit, pushed)
               ELSE pushed

LoadMessagesResult(store, userId, now, hasLimit, limit) ==
  CursorLoop({r \in store : InRange(r, userId, now)}, hasLimit, limit, <<>>)

\* index.count(IDBKeyRange.only(userId)) on 'user_id'
CountResult(store, userId) == Cardinality({r \in store : r.user_id = userId})

\* deleteMessages with the cursor of loadMessages: only the rows in the
\* range [userId, 0]..[userId, Date.now()] go
DeleteMessagesInRange(store, userId) ==
  {r \in store : ~InRange(r, userId, clock)}

\* the cursor of deleteMessages over IDBKeyRange.only(userId) on 'user_id'
DeleteMessagesResult(store, userId) == {r \in store : r.user_id # userId}

SavesInFlight ==
  Cardinality({j \in DOMAIN txQueue : txQueue[j].op = "saveMessage"})

\* localDb.saveMessage(userId, { role, content, timestamp })
CallSaveMessage(tsValues) ==
  /\ Cardinality(msgStore) + SavesInFlight < MaxMsgs
  /\ \E u \in Users, ts \in tsValues :
       OpenDB([IdleCall EXCEPT !.op = "saveMessage", !.user = u,
                                  !.ts = ts, !.content = "hi"])
  /\ PromiseSettles
  /\ UNCHANGED <<supported, clock, settingsStore, msgStore, memMessages,
                 lastSaved, emptied, wiped, savedOrder>>

\* localDb.loadMessages(userId)
CallLoadMessages ==
  /\ \E u \in Users :
       OpenDB([IdleCall EXCEPT !.op = "loadMessages", !.user = u])
  /\ PromiseSettles
  /\ UNCHANGED <<supported, clock, settingsStore, msgStore, memMessages,
                 lastSaved, emptied, wiped, savedOrder>>

\* localDb.loadMessages(userId, limit)
CallLoadMessagesLimit ==
  /\ \E u \in Users, limit \in LimitValues :
       OpenDB([IdleCall EXCEPT !.op = "loadMessages", !.user = u,
                                  !.hasLimit = TRUE, !.limit = limit])
  /\ PromiseSettles
  /\ UNCHANGED <<supported, clock, settingsStore, msgStore, memMessages,
                 lastSaved, emptied, wiped, savedOrder>>

\* localDb.deleteMessages(userId)
CallDeleteMessages ==
  /\ \E u \in Users :
       OpenDB([IdleCall EXCEPT !.op = "deleteMessages", !.user = u])
  /\ PromiseSettles
  /\ UNCHANGED <<supported, clock, settingsStore, msgStore, memMessages,
                 lastSaved, emptied, wiped, savedOrder>>

\* localDb.getMessageCount(userId)
CallGetMessageCount ==
  /\ \E u \in Users :
       OpenDB([IdleCall EXCEPT !.op = "getMessageCount", !.user = u])
  /\ PromiseSettles
  /\ UNCHANGED <<supported, clock, settingsStore, msgStore, memMessages,
                 lastSaved, emptied, wiped, savedOrder>>

\* store.add(messageData) answers
AddRequest(i) ==
  /\ txQueue[i].pc = "add"
  /\ CanRun(i)
  /\ txQueue' = Dequeue(i)
  /\ \E ok \in BOOLEAN, id \in FreshMessageIds :
       IF ok
         THEN /\ msgStore' = msgStore \cup {MessageData([txQueue[i] EXCEPT !.id = id])}
              /\ answer' = Resolved([txQueue[i] EXCEPT !.id = id])
              /\ savedOrder' = Append(savedOrder, id)
              /\ emptied' = [emptied EXCEPT ![txQueue[i].user] = FALSE]
              /\ wiped' = FALSE
         ELSE /\ answer' = Rejected(txQueue[i])
              /\ UNCHANGED <<msgStore, savedOrder, emptied, wiped>>
  /\ PromiseSettles
  /\ UNCHANGED <<supported, clock, settingsStore, memMessages, lastSaved>>

\* index.openCursor(range, 'next') of loadMessages answers, event by event,
\* inside one readonly transaction (no write can come between the events)
CursorRequest(i) ==
  /\ txQueue[i].pc = "cursor"
  /\ CanRun(i)
  /\ txQueue' = Dequeue(i)
  /\ \E ok \in BOOLEAN :
       answer' =
         IF ok
           THEN Resolved([txQueue[i] EXCEPT !.rows =
                  LoadMessagesResult(msgStore, txQueue[i].user, txQueue[i].now,
                                     txQueue[i].hasLimit, txQueue[i].limit)])
           ELSE Rejected(txQueue[i])
  /\ PromiseSettles
  /\ UNCHANGED <<supported, clock, settingsStore, msgStore, memMessages,
                 lastSaved, emptied, wiped, savedOrder>>

\* the cursor of deleteMessages answers: cursor.delete() on every row of the
\* user, then resolve; an error aborts the transaction and undoes the deletes.
\* `found` keeps the rows the cursor was positioned on.
DeleteCursorRequest(i) ==
  /\ txQueue[i].pc = "delcursor"
  /\ CanRun(i)
  /\ txQueue' = Dequeue(i)
  /\ \E ok \in BOOLEAN :
       IF ok
         THEN /\ msgStore' = DeleteMessagesResult(msgStore, txQueue[i].user)
              /\ savedOrder' = RemoveIds(savedOrder,
                   {r.id : r \in {q \in msgStore : q \notin msgStore'}})
              /\ emptied' = [emptied EXCEPT ![txQueue[i].user] = TRUE]
              /\ answer' = Resolved([txQueue[i] EXCEPT !.found =
                   {r \in msgStore : r.user_id = txQueue[i].user}])
         ELSE /\ answer' = Rejected(txQueue[i])
              /\ UNCHANGED <<msgStore, savedOrder, emptied>>
  /\ PromiseSettles
  /\ UNCHANGED <<supported, clock, settingsStore, memMessages, lastSaved, wiped>>

\* index.count(IDBKeyRange.only(userId)) answers
CountRequest(i) ==
  /\ txQueue[i].pc = "count"
  /\ CanRun(i)
  /\ txQueue' = Dequeue(i)
  /\ \E ok \in BOOLEAN :
       answer' =
         IF ok
           THEN Resolved([txQueue[i] EXCEPT !.count = CountResult(msgStore, txQueue[i].user)])
           ELSE Rejected(txQueue[i])
  /\ PromiseSettles
  /\ UNCHANGED <<supported, clock, settingsStore, msgStore, memMessages,
                 lastSaved, emptied, wiped, savedOrder>>

\* ------------------------------------------------------------- settings
\* index('user_id').get(userId): the row of the user, if any (of several,
\* the one with the lowest primary key)
IndexGet(store, userId) ==
  LET hits == {r \in store : r.user_id = userId}
  IN  IF hits = {} THEN {}
      ELSE {CHOOSE r \in hits : \A q \in hits : r.id <= q.id}

\* saveSettings with the existing row spread over the new values: the row
\* keeps its old api_key
SettingsDataKeepsKey(r) ==
  LET fresh == [ id |-> r.id, user_id |-> r.user, api_key |-> r.sv.api_key,
                 base_url |-> r.sv.base_url, model |-> r.sv.model,
                 created_at |-> r.now, updated_at |-> r.now ]
  IN  IF r.found = {} THEN fresh
      ELSE LET existing == CHOOSE e \in r.found : TRUE
           IN  [fresh EXCEPT !.id = existing.id,
                             !.api_key = existing.api_key,
                             !.created_at = existing.created_at,
                             !.updated_at = r.now]

\* saveSettings without `settingsData.created_at = existing.created_at`
SettingsDataStampsAgain(r) ==
  LET fresh == [ id |-> r.id, user_id |-> r.user, api_key |-> r.sv.api_key,
                 base_url |-> r.sv.base_url, model |-> r.sv.model,
                 created_at |-> r.now, updated_at |-> r.now ]
  IN  IF r.found = {} THEN fresh
      ELSE LET existing == CHOOSE e \in r.found : TRUE
           IN  [fresh EXCEPT !.id = existing.id, !.updated_at = r.now]

\* the row saveSettings puts: settingsData, with id and created_at taken
\* from the existing row when the lookup found one
SettingsData(r) ==
  LET fresh == [ id |-> r.id, user_id |-> r.user, api_key |-> r.sv.api_key,
                 base_url |-> r.sv.base_url, model |-> r.sv.model,
                 created_at |-> r.now, updated_at |-> r.now ]
  IN  IF r.found = {} THEN fresh
      ELSE LET existing == CHOOSE e \in r.found : TRUE
           IN  [fresh EXCEPT !.id = existing.id,
                             !.created_at = existing.created_at,
                             !.updated_at = r.now]

\* store.put(row) on a store created with generated keys and a user_id index
\* that is not unique: every put adds a row
StorePutAppends(store, row) == [ok |-> TRUE, rows |-> store \cup {row}]

\* store.put(row) on the store openDB creates: keyPath 'id' (a row with the
\* same id is replaced) and the unique index on user_id (a second row for a
\* user_id is refused with a ConstraintError)
StorePut(store, row) ==
  IF \E r \in store : r.user_id = row.user_id /\ r.id # row.id
    THEN [ok |-> FALSE, rows |-> store]
    ELSE [ok |-> TRUE, rows |-> {r \in store : r.id # row.id} \cup {row}]

\* localDb.saveSettings(userId, { api_key, base_url, model })
CallSaveSettings ==
  /\ \E u \in Users, sv \in SettingsVals :
       OpenDB([IdleCall EXCEPT !.op = "saveSettings", !.user = u, !.sv = sv])
  /\ PromiseSettles
  /\ UNCHANGED <<supported, clock, settingsStore, msgStore, memMessages,
                 lastSaved, emptied, wiped, savedOrder>>

\* localDb.loadSettings(userId)
CallLoadSettings ==
  /\ \E u \in Users :
       OpenDB([IdleCall EXCEPT !.op = "loadSettings", !.user = u])
  /\ PromiseSettles
  /\ UNCHANGED <<supported, clock, settingsStore, msgStore, memMessages,
                 lastSaved, emptied, wiped, savedOrder>>

\* localDb.deleteSettings(userId)
CallDeleteSettings ==
  /\ \E u \in Users :
       OpenDB([IdleCall EXCEPT !.op = "deleteSettings", !.user = u])
  /\ PromiseSettles
  /\ UNCHANGED <<supported, clock, settingsStore, msgStore, memMessages,
                 lastSaved, emptied, wiped, savedOrder>>

\* localDb.clearAllData()
CallClearAllData ==
  /\ OpenDB([IdleCall EXCEPT !.op = "clearAllData", !.reqS = "pending",
                                !.reqM = "pending"])
  /\ PromiseSettles
  /\ UNCHANGED <<supported, clock, settingsStore, msgStore, memMessages,
                 lastSaved, emptied, wiped, savedOrder>>

\* saveSettings: existingRequest answers; onsuccess issues store.put
GetRequest(i) ==
  /\ txQueue[i].pc = "get"
  /\ CanRun(i)
  /\ \E ok \in BOOLEAN :
       IF ok
         THEN /\ txQueue' = [txQueue EXCEPT ![i] =
                   [@ EXCEPT !.found = IndexGet(settingsStore, txQueue[i].user),
                             !.pc = "put"]]
              /\ answer' = IdleCall
         ELSE /\ answer' = Rejected(txQueue[i])
              /\ txQueue' = Dequeue(i)
  /\ PromiseSettles
  /\ UNCHANGED <<supported, clock, settingsStore, msgStore, memMessages,
                 lastSaved, emptied, wiped, savedOrder>>

\* saveSettings: saveRequest answers
PutRequest(i) ==
  /\ txQueue[i].pc = "put"
  /\ CanRun(i)
  /\ txQueue' = Dequeue(i)
  /\ \E ok \in BOOLEAN :
       LET call == [txQueue[i] EXCEPT !.id = FreshSettingsId]
           put  == StorePut(settingsStore, SettingsData(call))
       IN  IF ok /\ put.ok
             THEN /\ settingsStore' = put.rows
                  /\ answer' = Resolved(call)
                  /\ lastSaved' = [lastSaved EXCEPT ![txQueue[i].user] = txQueue[i].sv]
                  /\ wiped' = FALSE
             ELSE /\ answer' = Rejected(txQueue[i])
                  /\ UNCHANGED <<settingsStore, lastSaved, wiped>>
  /\ PromiseSettles
  /\ UNCHANGED <<supported, clock, msgStore, memMessages, emptied, savedOrder>>

\* loadSettings: index.get(userId) answers; resolve(result || null)
LoadGetRequest(i) ==
  /\ txQueue[i].pc = "lget"
  /\ CanRun(i)
  /\ txQueue' = Dequeue(i)
  /\ \E ok \in BOOLEAN :
       answer' =
         IF ok
           THEN Resolved([txQueue[i] EXCEPT !.found =
                  IndexGet(settingsStore, txQueue[i].user)])
           ELSE Rejected(txQueue[i])
  /\ PromiseSettles
  /\ UNCHANGED <<supported, clock, settingsStore, msgStore, memMessages,
                 lastSaved, emptied, wiped, savedOrder>>

\* deleteSettings: getRequest answers; a row found: store.delete(result.id)
\* is issued, none found: resolve
DeleteGetRequest(i) ==
  /\ txQueue[i].pc = "dget"
  /\ CanRun(i)
  /\ \E ok \in BOOLEAN :
       LET result == IndexGet(settingsStore, txQueue[i].user)
       IN  IF ok /\ result # {}
             THEN /\ txQueue' = [txQueue EXCEPT ![i] =
                       [@ EXCEPT !.found = result, !.pc = "delete"]]
                  /\ answer' = IdleCall
             ELSE /\ answer' = IF ok THEN Resolved(txQueue[i]) ELSE Rejected(txQueue[i])
                  /\ txQueue' = Dequeue(i)
  /\ PromiseSettles
  /\ UNCHANGED <<supported, clock, settingsStore, msgStore, memMessages,
                 lastSaved, emptied, wiped, savedOrder>>

\* deleteSettings: deleteRequest answers
DeleteRequest(i) ==
  /\ txQueue[i].pc = "delete"
  /\ CanRun(i)
  /\ txQueue' = Dequeue(i)
  /\ \E ok \in BOOLEAN :
       IF ok
         THEN /\ settingsStore' =
                   {r \in settingsStore : r.id \notin {e.id : e \in txQueue[i].found}}
              /\ answer' = Resolved([txQueue[i] EXCEPT !.found = {}])
              /\ lastSaved' = [lastSaved EXCEPT ![txQueue[i].user] = NoSettings]
         ELSE /\ answer' = Rejected(txQueue[i])
              /\ UNCHANGED <<settingsStore, lastSaved>>
  /\ PromiseSettles
  /\ UNCHANGED <<supported, clock, msgStore, memMessages, emptied, wiped,
                 savedOrder>>

\* clearAllData with both requests on the settings store: the messages stay
ClearMessagesStoreSkipped(store) == store

\* clearAllData: settingsStore.clear() and messagesStore.clear()
ClearSettingsStore(store) == {}

ClearMessagesStore(store) == {}

\* checkComplete() that resolves on the first clear that completes
CheckCompleteFirst(r) ==
  [r EXCEPT !.completed = r.completed + 1, !.settle = "resolved"]

\* clearAllData: checkComplete()
CheckComplete(r) ==
  LET counted == [r EXCEPT !.completed = r.completed + 1]
  IN  IF counted.completed = total
        THEN [counted EXCEPT !.settle = "resolved"]
        ELSE counted

\* clearAllData: settingsRequest answers.  onerror rejects; the error aborts
\* the transaction, so messagesRequest is answered with an error as well.
ClearSettingsRequest(i) ==
  /\ txQueue[i].pc = "clearS"
  /\ CanRun(i)
  /\ \E ok \in BOOLEAN :
       IF ok
         THEN /\ settingsStore' = ClearSettingsStore(settingsStore)
              /\ txQueue' = [txQueue EXCEPT ![i] =
                   CheckComplete([@ EXCEPT !.reqS = "ok", !.pc = "clearM",
                                           !.undo = settingsStore])]
              /\ answer' = IdleCall
         ELSE /\ answer' = Rejected([txQueue[i] EXCEPT !.reqS = "failed",
                                                     !.reqM = "failed"])
              /\ txQueue' = Dequeue(i)
              /\ UNCHANGED settingsStore
  /\ PromiseSettles
  /\ UNCHANGED <<supported, clock, msgStore, memMessages, lastSaved, emptied,
                 wiped, savedOrder>>

\* clearAllData: messagesRequest answers; with it the transaction ends.  An
\* error aborts the transaction, which undoes the clear of the settings.
ClearMessagesRequest(i) ==
  /\ txQueue[i].pc = "clearM"
  /\ CanRun(i)
  /\ txQueue' = Dequeue(i)
  /\ \E ok \in BOOLEAN :
       IF ok
         THEN /\ msgStore' = ClearMessagesStore(msgStore)
              /\ answer' = Resolved(CheckComplete([txQueue[i] EXCEPT !.reqM = "ok"]))
              /\ savedOrder' = RemoveIds(savedOrder,
                   {r.id : r \in {q \in msgStore : q \notin msgStore'}})
              /\ lastSaved' = [u \in Users |-> NoSettings]
              /\ wiped' = TRUE
              /\ UNCHANGED settingsStore
         ELSE /\ settingsStore' = txQueue[i].undo
              /\ answer' = Rejected([txQueue[i] EXCEPT !.reqM = "failed"])
              /\ UNCHANGED <<msgStore, savedOrder, lastSaved, wiped>>
  /\ PromiseSettles
  /\ UNCHANGED <<supported, clock, memMessages, emptied>>

\* ----------------------------------------------- the callers of localDb
\* the message as useMessages keeps it in `messages`
MemMessage(r) == [role |-> r.role, content |-> r.content, timestamp |-> r.ts]

\* addMessage without the isSupported() check
AddMessageUnguarded(r) ==
  /\ memMessages' = Append(memMessages, MemMessage(r))
  /\ OpenDB(r)

\* the body of useMessages.addMessage(message), to its await:
\* setMessages(prev => [...prev, message]), then, if IndexedDB is supported,
\* getUserId() and localDb.saveMessage inside the try
AddMessageRuns(r) ==
  /\ memMessages' = Append(memMessages, MemMessage(r))
  /\ IF supported /\ ~GetUserIdThrows(flat)
       THEN OpenDB(r)
       ELSE answer' = NotCalled(r) /\ UNCHANGED txQueue

\* useMessages.addMessage(message)
AddMessage(tsValues) ==
  /\ Len(memMessages) < MaxMsgs
  /\ Cardinality(msgStore) + SavesInFlight < MaxMsgs
  /\ \E u \in Users, ts \in tsValues :
       AddMessageRuns([IdleCall EXCEPT !.op = "saveMessage", !.caller = "hook",
                                       !.user = u, !.ts = ts, !.content = "hi"])
  /\ PromiseSettles
  /\ UNCHANGED <<supported, clock, settingsStore, msgStore, lastSaved,
                 emptied, wiped, savedOrder>>

\* useMessages.getMessageCount()
GetMessageCount ==
  /\ \E u \in Users :
       LET r == [IdleCall EXCEPT !.op = "getMessageCount", !.caller = "hook",
                                 !.user = u, !.memLen = Len(memMessages)]
       IN  IF supported
             THEN OpenDB(r)
             ELSE answer' = NotCalled(r) /\ UNCHANGED txQueue
  /\ PromiseSettles
  /\ UNCHANGED <<supported, clock, settingsStore, msgStore, memMessages,
                 lastSaved, emptied, wiped, savedOrder>>

\* SettingsModal: getStorageInfo()
CallGetStorageInfo ==
  /\ \E u \in Users :
       LET r == [IdleCall EXCEPT !.op = "getMessageCount", !.caller = "modal",
                                 !.user = u]
       IN  IF supported
             THEN OpenDB(r)
             ELSE answer' = NotCalled(r) /\ UNCHANGED txQueue
  /\ PromiseSettles
  /\ UNCHANGED <<supported, clock, settingsStore, msgStore, memMessages,
                 lastSaved, emptied, wiped, savedOrder>>

\* ------------------------------------------------ useSettings.loadSettings
LibUnchanged ==
  UNCHANGED <<supported, clock, msgStore, memMessages, lastSaved, emptied,
              wiped, savedOrder>>

\* what earlier sessions of the profile, other devices and the build left
\* behind: the state of localStorage, the user's row in the object store and
\* the remote store
FlatModes == {"ok", "full", "denied"}

FlatBlobs ==
  { NoBlob, CorruptBlob, [kind |-> "json", pairs |-> {<<"apiKey", "A">>}],
    Stringify(SettingsE) }

StoredRow(s) ==
  [ id |-> 1, user_id |-> UserId, api_key |-> s.apiKey, base_url |-> s.baseUrl,
    model |-> s.model, created_at |-> 0, updated_at |-> 0 ]

StoredRows == { {}, {StoredRow(SettingsB)}, {StoredRow(SettingsE)} }

RemoteRow(s) ==
  [ user_id |-> UserId, api_key |-> s.apiKey, base_url |-> s.baseUrl,
    model |-> s.model ]

RemoteStates ==
  { [configured |-> FALSE, row |-> {}], [configured |-> TRUE, row |-> {}],
    [configured |-> TRUE, row |-> {RemoteRow(SettingsC)}] }

PriorSessions(modes, blobs, rows, remotes) ==
  /\ loadP.pc = "idle"
  /\ txQueue = <<>>
  /\ \E mode \in modes, blob \in blobs :
       flat' = [mode |-> mode, blob |-> IF mode = "denied" THEN NoBlob ELSE blob]
  /\ settingsStore' \in rows
  /\ remote' \in remotes
  /\ answer' = IdleCall
  /\ UNCHANGED <<txQueue, settings, isLoading, loadP, updP, sends, app>>
  /\ LibUnchanged
  /\ UNCHANGED taskP

LoadCall(op, sv) ==
  [IdleCall EXCEPT !.op = op, !.caller = "load", !.user = UserId, !.sv = sv]

\* loadSettings: the catch block and the finally after it, entered with the
\* in-memory settings s
LoadCatch(p, s) ==
  LET localSettings == LoadLocalSettings(flat)
  IN  IF GetUserIdThrows(flat)
        THEN /\ loadP' = [p EXCEPT !.pc = "done", !.localSettings = localSettings,
                                   !.raised = TRUE]
             /\ settings' = s
             /\ isLoading' = FALSE
             /\ answer' = IdleCall
             /\ UNCHANGED txQueue
        ELSE IF ~supported
               THEN /\ loadP' = [p EXCEPT !.pc = "done",
                                          !.localSettings = localSettings,
                                          !.localDbSettings = {},
                                          !.readOk = FALSE]
                    /\ settings' = CatchSettings(localSettings, {})
                    /\ isLoading' = FALSE
                    /\ answer' = IdleCall
                    /\ UNCHANGED txQueue
               ELSE /\ OpenDB(LoadCall("loadSettings", NoSettings))
                    /\ loadP' = LoadReceive([p EXCEPT !.pc = "catchRead",
                                                      !.localSettings = localSettings],
                                            answer')
                    /\ settings' = s
                    /\ UNCHANGED isLoading

\* useEffect(() => { loadSettings() }, []): getUserId(), loadLocalSettings(),
\* and the call of loadLocalDbSettings(userId)
LoadSettings ==
  /\ loadP.pc = "idle"
  /\ IF GetUserIdThrows(flat)
       THEN LoadCatch(loadP, settings)
       ELSE LET localSettings == LoadLocalSettings(flat)
            IN  IF ~supported
                  THEN /\ loadP' = [loadP EXCEPT !.pc = "readDone",
                                                !.localSettings = localSettings,
                                                !.localDbSettings = {},
                                                !.readOk = FALSE]
                       /\ answer' = IdleCall
                       /\ UNCHANGED <<txQueue, settings, isLoading>>
                  ELSE /\ OpenDB(LoadCall("loadSettings", NoSettings))
                       /\ loadP' = LoadReceive([loadP EXCEPT !.pc = "dbRead",
                                                  !.localSettings = localSettings],
                                               answer')
                       /\ UNCHANGED <<settings, isLoading>>
  /\ UNCHANGED <<settingsStore, flat, remote, updP, sends, app>>
  /\ LibUnchanged
  /\ UNCHANGED taskP

\* loadSettings: if (localSettings.apiKey) setSettings(localSettings)
EarlyAdoption(localSettings, current) ==
  IF localSettings.apiKey # "" THEN localSettings ELSE current

\* loadSettings after `await loadLocalDbSettings(userId)`: fallbackSettings,
\* the early setSettings(localSettings), and the remote query (a TypeError
\* when `supabase` is null)
LoadProceed ==
  /\ loadP.pc = "readDone"
  /\ LET fallbackSettings == FallbackSettings(loadP.localSettings,
                                              loadP.localDbSettings)
         adopted == EarlyAdoption(loadP.localSettings, settings)
     IN  IF ~remote.configured
           THEN LoadCatch([loadP EXCEPT !.fallbackSettings = fallbackSettings,
                                        !.remote = "unconfigured"], adopted)
           ELSE /\ loadP' = [loadP EXCEPT !.pc = "remote",
                                         !.fallbackSettings = fallbackSettings]
                /\ settings' = adopted
                /\ answer' = IdleCall
                /\ UNCHANGED <<txQueue, isLoading>>
  /\ UNCHANGED <<settingsStore, flat, remote, updP, sends, app>>
  /\ LibUnchanged
  /\ UNCHANGED taskP

\* loadSettings: the remote query answers { data, error }, or throws
RemoteSelect ==
  /\ loadP.pc = "remote"
  /\ \E outcome \in {"error", "data", "throws"} :
       CASE outcome = "error" \/ (outcome = "data" /\ remote.row = {}) ->
              /\ loadP' = [loadP EXCEPT !.pc = "done",
                             !.remote = IF outcome = "error" THEN "error" ELSE "norow"]
              /\ settings' = loadP.fallbackSettings
              /\ isLoading' = FALSE
              /\ answer' = IdleCall
              /\ UNCHANGED <<txQueue, flat>>
         [] outcome = "data" /\ remote.row # {} ->
              LET dbSettings == ToSettings(CHOOSE data \in remote.row : TRUE)
              IN  /\ settings' = dbSettings
                  /\ flat' = SaveLocalSettings(flat, dbSettings)
                  /\ IF ~supported
                       THEN /\ loadP' = [loadP EXCEPT !.pc = "done", !.remote = "row"]
                            /\ isLoading' = FALSE
                            /\ answer' = IdleCall
                            /\ UNCHANGED txQueue
                       ELSE /\ OpenDB(LoadCall("saveSettings", FromSettings(dbSettings)))
                            /\ loadP' = LoadReceive([loadP EXCEPT !.pc = "sync",
                                                                  !.remote = "row"],
                                                    answer')
                            /\ UNCHANGED isLoading
         [] OTHER ->
              /\ LoadCatch([loadP EXCEPT !.remote = "throws"], settings)
              /\ UNCHANGED flat
  /\ UNCHANGED <<settingsStore, remote, updP, sends, app>>
  /\ LibUnchanged
  /\ UNCHANGED taskP

\* loadSettings after `await saveLocalDbSettings(userId, dbSettings)`: finally
LoadSynced ==
  /\ loadP.pc = "syncDone"
  /\ loadP' = [loadP EXCEPT !.pc = "done"]
  /\ isLoading' = FALSE
  /\ answer' = IdleCall
  /\ UNCHANGED <<txQueue, settingsStore, settings, flat, remote, updP, sends, app>>
  /\ LibUnchanged
  /\ UNCHANGED taskP

\* loadSettings, in the catch, after `await loadLocalDbSettings(getUserId())`
LoadCaught ==
  /\ loadP.pc = "catchDone"
  /\ loadP' = [loadP EXCEPT !.pc = "done"]
  /\ settings' = CatchSettings(loadP.localSettings, loadP.localDbSettings)
  /\ isLoading' = FALSE
  /\ answer' = IdleCall
  /\ UNCHANGED <<txQueue, settingsStore, flat, remote, updP, sends, app>>
  /\ LibUnchanged
  /\ UNCHANGED taskP

\* ---------------------------------------------- useSettings.updateSettings
UpdateCall(sv) ==
  [IdleCall EXCEPT !.op = "saveSettings", !.caller = "update", !.user = UserId,
                   !.sv = sv]

\* updateSettings(newSettings), called from the settings dialog, which App
\* renders once the load has ended: getUserId(), saveLocalSettings(newSettings)
\* and the call of saveLocalDbSettings(userId, newSettings).  `steps` lists
\* the local steps of the call as it takes them.
UpdateSettings(values) ==
  /\ loadP.pc = "done"
  /\ updP.pc \in {"idle", "done"}
  /\ \E newSettings \in values :
       IF GetUserIdThrows(flat)
         THEN /\ updP' = [IdleUpdate EXCEPT !.pc = "done",
                                            !.newSettings = newSettings,
                                            !.raised = TRUE]
              /\ answer' = IdleCall
              /\ UNCHANGED <<txQueue, flat>>
         ELSE /\ flat' = SaveLocalSettings(flat, newSettings)
              /\ IF ~supported
                   THEN /\ updP' = [IdleUpdate EXCEPT !.pc = "written",
                                                      !.newSettings = newSettings,
                                                      !.steps = <<"flat">>]
                        /\ answer' = IdleCall
                        /\ UNCHANGED txQueue
                   ELSE /\ OpenDB(UpdateCall(FromSettings(newSettings)))
                        /\ updP' = UpdateReceive(
                                     [IdleUpdate EXCEPT !.pc = "dbWrite",
                                                        !.newSettings = newSettings,
                                                        !.steps = <<"flat">>],
                                     answer')
  /\ UNCHANGED <<settingsStore, settings, isLoading, remote, loadP, sends, app>>
  /\ LibUnchanged
  /\ UNCHANGED taskP

\* updateSettings after `await saveLocalDbSettings(userId, newSettings)`:
\* setSettings(newSettings), then the return when supabase is not configured,
\* else the upsert
UpdateProceed ==
  /\ updP.pc = "written"
  /\ settings' = updP.newSettings
  /\ updP' = [updP EXCEPT !.steps = Append(updP.steps, "memory"),
                          !.pc = IF remote.configured THEN "upsert" ELSE "done"]
  /\ answer' = IdleCall
  /\ UNCHANGED <<txQueue, settingsStore, isLoading, flat, remote, loadP, sends, app>>
  /\ LibUnchanged
  /\ UNCHANGED taskP

\* updateSettings: the upsert answers { error }, or throws; either is logged
RemoteUpsert ==
  /\ updP.pc = "upsert"
  /\ \E outcome \in {"ok", "error", "throws"} :
       /\ updP' = [updP EXCEPT !.pc = "done", !.upsert = outcome]
       /\ remote' = IF outcome = "ok"
                      THEN [remote EXCEPT !.row = {RemoteRow(updP.newSettings)}]
                      ELSE remote
  /\ answer' = IdleCall
  /\ UNCHANGED <<txQueue, settingsStore, settings, isLoading, flat, loadP, sends, app>>
  /\ LibUnchanged
  /\ UNCHANGED taskP

\* ------------------------------------------------------ App.sendMessage
NoError == <<>>

ConfigureError == <<"Please configure your API key in settings">>

\* what the completion endpoint may answer: 200 with a content (or none), a
\* 200 whose body does not parse, a non-2xx with error.message, with message,
\* or with neither, and no answer at all (fetch throws)
Responses ==
  { [kind |-> "ok", status |-> "200", content |-> "hello", errorMessage |-> "",
     message |-> "", statusText |-> "OK"],
    [kind |-> "ok", status |-> "200", content |-> "", errorMessage |-> "",
     message |-> "", statusText |-> "OK"],
    [kind |-> "badjson", status |-> "200", content |-> "", errorMessage |-> "",
     message |-> "", statusText |-> "OK"],
    [kind |-> "http", status |-> "401", content |-> "", errorMessage |-> "bad key",
     message |-> "", statusText |-> "Unauthorized"],
    [kind |-> "http", status |-> "429", content |-> "", errorMessage |-> "",
     message |-> "slow down", statusText |-> "Too Many Requests"],
    [kind |-> "http", status |-> "500", content |-> "", errorMessage |-> "",
     message |-> "", statusText |-> "Internal Server Error"],
    [kind |-> "throws", status |-> "", content |-> "", errorMessage |-> "",
     message |-> "", statusText |-> "Failed to fetch"] }

\* the status text alone
ErrorMsgStatusText(response) == response.statusText

\* errorData.error?.message || errorData.message || response.statusText
ErrorMsg(response) ==
  IF response.errorMessage # "" THEN response.errorMessage
  ELSE IF response.message # "" THEN response.message
  ELSE response.statusText

\* the message of the Error the try block throws: `${status} Error: ${errorMsg}`
\* for a non-2xx response, else the message of what fetch or json() threw
ThrownMessage(response) ==
  IF response.kind = "http"
    THEN <<response.status, " Error: ", ErrorMsg(response)>>
    ELSE IF response.kind = "badjson"
           THEN <<"Unexpected token">>
           ELSE <<response.statusText>>

\* data.choices?.[0]?.message?.content || 'No response from AI'
AssistantContent(response) ==
  IF response.content # "" THEN response.content ELSE "No response from AI"

IdleSend ==
  [ pc |-> "idle", content |-> "" ]

\* the fetch of send k, settled with a response
Fetched(k, response) ==
  [IdleCall EXCEPT !.op = "fetch", !.caller = "send", !.proc = k,
                   !.pc = "done", !.response = response,
                   !.settle = IF response.kind = "throws" THEN "rejected"
                                                          ELSE "resolved"]

SendCall(k, role, content) ==
  [IdleCall EXCEPT !.op = "saveMessage", !.caller = "send", !.proc = k,
                   !.user = UserId, !.role = role, !.content = content,
                   !.ts = clock]

\* the in-memory list and the store are kept within MaxMsgs messages
RoomForMessage ==
  /\ Len(memMessages) < MaxMsgs
  /\ Cardinality(msgStore) + SavesInFlight < MaxMsgs

\* the guard is skipped
MissingApiKeyNever(s) == FALSE

\* !settings.apiKey
MissingApiKey(s) == s.apiKey = ""

\* sendMessage(content), from the chat input, which App renders once the
\* settings load has ended: the API key check, else userMessage and
\* `await addMessage(userMessage)`
SendMessage(contents) ==
  /\ loadP.pc = "done"
  /\ \E content \in contents :
       IF MissingApiKey(settings)
         THEN /\ app' = [app EXCEPT !.error = ConfigureError,
                                    !.isSettingsOpen = TRUE]
              /\ answer' = IdleCall
              /\ UNCHANGED <<txQueue, memMessages, sends>>
         ELSE /\ RoomForMessage
              /\ AddMessageRuns(SendCall(Len(sends) + 1, "user", content))
              /\ sends' = SendsReceive(
                            Append(sends, [IdleSend EXCEPT !.pc = "saveUser",
                                                           !.content = content]),
                            answer')
              /\ UNCHANGED app
  /\ UNCHANGED <<supported, clock, settingsStore, msgStore, lastSaved, emptied,
                 wiped, savedOrder, settings, isLoading, flat, remote, loadP, updP,
                 taskP>>

\* sendMessage after `await addMessage(userMessage)`: setIsLoading(true),
\* setError(null), and the fetch
SendProceed(k) ==
  /\ sends[k].pc = "userSaved"
  /\ sends' = [sends EXCEPT ![k].pc = "fetch"]
  /\ app' = [app EXCEPT !.isLoading = TRUE, !.error = NoError]
  /\ answer' = IdleCall
  /\ UNCHANGED <<txQueue, settingsStore, memMessages, settings, isLoading, flat,
                 remote, loadP, updP>>
  /\ LibUnchanged
  /\ UNCHANGED taskP

\* sendMessage: the fetch answers or throws.  On a 200 that parses:
\* assistantMessage and `await addMessage(assistantMessage)`; else the catch
\* sets the error, and the finally ends the call
FetchResponse(k) ==
  /\ sends[k].pc = "fetch"
  /\ \E response \in Responses :
       IF response.kind = "ok"
         THEN /\ RoomForMessage
              /\ AddMessageRuns(SendCall(k, "assistant", AssistantContent(response)))
              /\ sends' = SendsReceive(
                            [sends EXCEPT ![k].pc = "saveAssistant"], answer')
              /\ UNCHANGED app
         ELSE /\ sends' = [sends EXCEPT ![k].pc = "done"]
              /\ app' = [app EXCEPT !.error = ThrownMessage(response),
                                    !.isLoading = FALSE]
              /\ answer' = Fetched(k, response)
              /\ UNCHANGED <<txQueue, memMessages>>
  /\ UNCHANGED <<supported, clock, settingsStore, msgStore, lastSaved, emptied,
                 wiped, savedOrder, settings, isLoading, flat, remote, loadP, updP,
                 taskP>>

\* localDb.loadMessages(getUserId()), as a later mount of useMessages calls
\* it, when no other call is in flight
CallLoadMessagesLater ==
  /\ txQueue = <<>>
  /\ ~GetUserIdThrows(flat)
  /\ OpenDB([IdleCall EXCEPT !.op = "loadMessages", !.user = UserId])
  /\ PromiseSettles
  /\ UNCHANGED <<supported, clock, settingsStore, msgStore, memMessages,
                 lastSaved, emptied, wiped, savedOrder>>

\* sendMessage after `await addMessage(assistantMessage)`: the finally
SendFinish(k) ==
  /\ sends[k].pc = "assistantSaved"
  /\ sends' = [sends EXCEPT ![k].pc = "done"]
  /\ app' = [app EXCEPT !.isLoading = FALSE]
  /\ answer' = IdleCall
  /\ UNCHANGED <<txQueue, settingsStore, memMessages, settings, isLoading, flat,
                 remote, loadP, updP>>
  /\ LibUnchanged
  /\ UNCHANGED taskP

\* ------------------------------- useMessages and the clear-data button
\* the one call of useMessages.loadMessages, addMessages or clearMessages,
\* or of ClearDataButton.handleClearData, that is in progress
TaskCall(op) ==
  [IdleCall EXCEPT !.op = op, !.caller = "task", !.user = UserId]

\* localDb.saveMessage(userId, {...message}) of addMessages
SaveOf(message) ==
  [TaskCall("saveMessage") EXCEPT !.role = message.role,
                                  !.content = message.content,
                                  !.ts = message.timestamp]

\* localMessages.map(msg => ({ role, content, timestamp, attachments }))
ConvertedMessages(rows) ==
  [i \in DOMAIN rows |-> [role |-> rows[i].role, content |-> rows[i].content,
                          timestamp |-> rows[i].timestamp]]

\* the task goes on without a call of the database
TaskSkips(op, pc) ==
  /\ taskP' = [IdleTask EXCEPT !.op = op, !.pc = pc]
  /\ answer' = NotCalled(TaskCall(op))
  /\ UNCHANGED txQueue

\* the task calls the database and awaits the promise
TaskAwaits(r, p) ==
  /\ OpenDB(r)
  /\ taskP' = TaskReceive([p EXCEPT !.op = r.op, !.pc = "await"], answer')

\* useEffect(() => { loadMessages() }, []) of useMessages
MountLoadMessages ==
  /\ taskP.pc = "idle"
  /\ app.isLoadingMessages
  /\ IF ~supported \/ GetUserIdThrows(flat)
       THEN /\ TaskSkips("loadMessages", "done")
            /\ app' = [app EXCEPT !.isLoadingMessages = FALSE]
       ELSE /\ TaskAwaits(TaskCall("loadMessages"), IdleTask)
            /\ UNCHANGED app
  /\ UNCHANGED <<supported, clock, settingsStore, msgStore, memMessages,
                 lastSaved, emptied, wiped, savedOrder, settings, isLoading,
                 flat, remote, loadP, updP, sends>>

\* loadMessages after `await localDb.loadMessages(userId)`:
\* setMessages(convertedMessages), or the catch; then the finally
LoadMessagesProceed ==
  /\ taskP.op = "loadMessages"
  /\ taskP.pc = "settled"
  /\ memMessages' = IF taskP.ok THEN ConvertedMessages(taskP.rows)
                                ELSE memMessages
  /\ app' = [app EXCEPT !.isLoadingMessages = FALSE]
  /\ taskP' = [taskP EXCEPT !.pc = "done"]
  /\ answer' = IdleCall
  /\ UNCHANGED <<supported, clock, settingsStore, msgStore, txQueue, lastSaved,
                 emptied, wiped, savedOrder, settings, isLoading, flat, remote,
                 loadP, updP, sends>>

\* the batches of addMessages
Batches ==
  { <<>>,
    <<[role |-> "user", content |-> "b1", timestamp |-> 0]>>,
    <<[role |-> "user", content |-> "b1", timestamp |-> 0],
      [role |-> "assistant", content |-> "b2", timestamp |-> 1]>> }

\* the in-memory list and the store have room for the batch
RoomForBatch(batch) ==
  /\ Len(memMessages) + Len(batch) <= MaxMsgs
  /\ Cardinality(msgStore) + SavesInFlight + Len(batch) <= MaxMsgs

\* useMessages.addMessages(newMessages): setMessages(prev => [...prev,
\* ...newMessages]), then, if IndexedDB is supported, getUserId() and the
\* save of the first message
AddMessages(batches) ==
  /\ taskP.pc \in {"idle", "done"}
  /\ \E batch \in batches :
       /\ RoomForBatch(batch)
       /\ memMessages' = memMessages \o batch
       /\ IF ~supported \/ GetUserIdThrows(flat) \/ batch = <<>>
            THEN /\ taskP' = [IdleTask EXCEPT !.op = "saveMessage",
                                              !.pc = "done", !.batch = batch]
                 /\ answer' = NotCalled(TaskCall("saveMessage"))
                 /\ UNCHANGED txQueue
            ELSE TaskAwaits(SaveOf(batch[1]),
                            [IdleTask EXCEPT !.batch = batch, !.next = 1])
  /\ UNCHANGED <<supported, clock, settingsStore, msgStore, lastSaved, emptied,
                 wiped, savedOrder, settings, isLoading, flat, remote, loadP,
                 updP, sends, app>>

\* the loop of addMessages going on after a save that failed
LoopIgnoresFailure(p) == p.next < Len(p.batch)

\* the for loop of addMessages goes on: the awaited save resolved (a
\* rejection leaves the loop for the catch) and messages remain
LoopGoesOn(p) == p.ok /\ p.next < Len(p.batch)

\* addMessages after an `await localDb.saveMessage(...)`: the save of the
\* next message of the batch, or the end of the loop, or the catch
AddMessagesProceed ==
  /\ taskP.op = "saveMessage"
  /\ taskP.pc = "settled"
  /\ IF LoopGoesOn(taskP)
       THEN TaskAwaits(SaveOf(taskP.batch[taskP.next + 1]),
                       [taskP EXCEPT !.next = taskP.next + 1])
       ELSE /\ taskP' = [taskP EXCEPT !.pc = "done"]
            /\ answer' = IdleCall
            /\ UNCHANGED txQueue
  /\ UNCHANGED <<supported, clock, settingsStore, msgStore, memMessages,
                 lastSaved, emptied, wiped, savedOrder, settings, isLoading,
                 flat, remote, loadP, updP, sends, app>>

\* useMessages.clearMessages(): setMessages([]), then, if IndexedDB is
\* supported, getUserId() and localDb.deleteMessages(userId)
ClearMessages ==
  /\ taskP.pc \in {"idle", "done"}
  /\ memMessages' = <<>>
  /\ IF ~supported \/ GetUserIdThrows(flat)
       THEN TaskSkips("deleteMessages", "done")
       ELSE TaskAwaits(TaskCall("deleteMessages"), IdleTask)
  /\ UNCHANGED <<supported, clock, settingsStore, msgStore, lastSaved, emptied,
                 wiped, savedOrder, settings, isLoading, flat, remote, loadP,
                 updP, sends, app>>

\* clearMessages after `await localDb.deleteMessages(userId)`: a log
ClearMessagesProceed ==
  /\ taskP.op = "deleteMessages"
  /\ taskP.pc = "settled"
  /\ taskP' = [taskP EXCEPT !.pc = "done"]
  /\ answer' = IdleCall
  /\ UNCHANGED <<supported, clock, settingsStore, msgStore, txQueue,
                 memMessages, lastSaved, emptied, wiped, savedOrder, settings,
                 isLoading, flat, remote, loadP, updP, sends, app>>

\* a call the page that made it no longer awaits; the user id it was made
\* for is no longer the one in localStorage
Orphaned(r) == [r EXCEPT !.caller = "direct", !.user = "u2"]

\* handleClearData after the database step: localStorage.removeItem of the
\* settings and of the user id, then window.location.reload(); the page
\* starts again with a new user id, so UserId names the new one and the rows
\* and calls of the old one are another user's.  A throw of removeItem goes
\* to the catch, which alerts.
RemoveAndReload ==
  IF flat.mode = "denied"
    THEN /\ taskP' = [IdleTask EXCEPT !.op = "clearAllData", !.pc = "done"]
         /\ UNCHANGED <<txQueue, settingsStore, msgStore, memMessages, settings,
                        isLoading, flat, loadP, updP, sends, app>>
    ELSE /\ flat' = [flat EXCEPT !.blob = NoBlob]
         /\ txQueue' = [j \in DOMAIN txQueue |-> Orphaned(txQueue[j])]
         /\ settingsStore' =
              {[row EXCEPT !.user_id = "u2"] : row \in settingsStore}
         /\ msgStore' = {[row EXCEPT !.user_id = "u2"] : row \in msgStore}
         /\ memMessages' = <<>>
         /\ settings' = DEFAULT_SETTINGS
         /\ isLoading' = TRUE
         /\ loadP' = IdleLoad
         /\ updP' = IdleUpdate
         /\ sends' = <<>>
         /\ app' = IdleApp
         /\ taskP' = IdleTask

\* ClearDataButton.handleClearData(), confirmed: if IndexedDB is supported,
\* `await localDb.clearAllData()`; else straight to the localStorage step
HandleClearData ==
  /\ taskP.pc \in {"idle", "done"}
  /\ IF supported
       THEN /\ TaskAwaits(TaskCall("clearAllData"), IdleTask)
            /\ UNCHANGED <<settingsStore, msgStore, memMessages, settings,
                           isLoading, flat, loadP, updP, sends, app>>
       ELSE /\ answer' = NotCalled(TaskCall("clearAllData"))
            /\ RemoveAndReload
  /\ UNCHANGED <<supported, clock, lastSaved, emptied, wiped, savedOrder, remote>>

\* handleClearData after `await localDb.clearAllData()`: the localStorage
\* step, or the catch when the promise rejected
ClearDataProceed ==
  /\ taskP.op = "clearAllData"
  /\ taskP.pc = "settled"
  /\ answer' = IdleCall
  /\ IF taskP.ok
       THEN RemoveAndReload
       ELSE /\ taskP' = [taskP EXCEPT !.pc = "done"]
            /\ UNCHANGED <<txQueue, settingsStore, msgStore, memMessages,
                           settings, isLoading, flat, loadP, updP, sends, app>>
  /\ UNCHANGED <<supported, clock, lastSaved, emptied, wiped, savedOrder, remote>>

\* the user reloads the page once it has loaded: the hooks start again from
\* their initial state while localStorage and the database stay; the calls
\* in flight go on without a caller.  updP keeps the last updateSettings that
\* ended, the record of what was saved last.
Reload ==
  /\ loadP.pc = "done"
  /\ txQueue' = [j \in DOMAIN txQueue |-> [txQueue[j] EXCEPT !.caller = "direct"]]
  /\ memMessages' = <<>>
  /\ settings' = DEFAULT_SETTINGS
  /\ isLoading' = TRUE
  /\ loadP' = [IdleLoad EXCEPT !.reloaded = TRUE]
  /\ updP' = IF updP.pc = "done" THEN updP ELSE IdleUpdate
  /\ sends' = <<>>
  /\ app' = IdleApp
  /\ taskP' = IdleTask
  /\ answer' = IdleCall
  /\ UNCHANGED <<supported, clock, settingsStore, msgStore, lastSaved, emptied,
                 wiped, savedOrder, flat, remote>>

Init ==
  /\ supported \in BOOLEAN
  /\ clock = 0
  /\ settingsStore = {}
  /\ msgStore = {}
  /\ answer = IdleCall
  /\ txQueue = <<>>
  /\ memMessages = <<>>
  /\ lastSaved = [u \in Users |-> NoSettings]
  /\ emptied = [u \in Users |-> FALSE]
  /\ wiped = FALSE
  /\ savedOrder = <<>>
  /\ settings = DEFAULT_SETTINGS
  /\ isLoading = TRUE
  /\ flat = [mode |-> "ok", blob |-> NoBlob]
  /\ remote = [configured |-> FALSE, row |-> {}]
  /\ loadP = IdleLoad
  /\ updP = IdleUpdate
  /\ sends = <<>>
  /\ app = IdleApp
  /\ taskP = IdleTask

\* the messages store under saves with any timestamp and unlimited loads
NextOrder ==
  \/ Tick
  \/ CallSaveMessage(TsValues)
  \/ CallLoadMessages
  \/ \E i \in DOMAIN txQueue : AddRequest(i)
  \/ \E i \in DOMAIN txQueue : CursorRequest(i)

SpecOrder == Init /\ [][NextOrder]_vars

\* the messages store under saves with any timestamp and loads with a limit
NextLimit ==
  \/ Tick
  \/ CallSaveMessage(TsValues)
  \/ CallLoadMessagesLimit
  \/ \E i \in DOMAIN txQueue : AddRequest(i)
  \/ \E i \in DOMAIN txQueue : CursorRequest(i)

SpecLimit == Init /\ [][NextLimit]_vars

\* the messages store under saves (in range and ahead of the clock),
\* deletes, loads and counts
NextDelete ==
  \/ CallSaveMessage({0, MaxTime + 1})
  \/ CallDeleteMessages
  \/ CallLoadMessages
  \/ CallGetMessageCount
  \/ \E i \in DOMAIN txQueue : AddRequest(i)
  \/ \E i \in DOMAIN txQueue : DeleteCursorRequest(i)
  \/ \E i \in DOMAIN txQueue : CursorRequest(i)
  \/ \E i \in DOMAIN txQueue : CountRequest(i)

SpecDelete == Init /\ [][NextDelete]_vars

\* the settings store under every method that touches it
NextSettings ==
  \/ Tick
  \/ CallSaveSettings
  \/ CallLoadSettings
  \/ CallDeleteSettings
  \/ CallClearAllData
  \/ \E i \in DOMAIN txQueue : GetRequest(i)
  \/ \E i \in DOMAIN txQueue : PutRequest(i)
  \/ \E i \in DOMAIN txQueue : LoadGetRequest(i)
  \/ \E i \in DOMAIN txQueue : DeleteGetRequest(i)
  \/ \E i \in DOMAIN txQueue : DeleteRequest(i)
  \/ \E i \in DOMAIN txQueue : ClearSettingsRequest(i)
  \/ \E i \in DOMAIN txQueue : ClearMessagesRequest(i)

SpecSettings == Init /\ [][NextSettings]_vars

\* both stores under clearAllData, saves and loads
NextClear ==
  \/ CallClearAllData
  \/ CallSaveSettings
  \/ CallSaveMessage({0})
  \/ CallLoadSettings
  \/ CallLoadMessages
  \/ \E i \in DOMAIN txQueue : ClearSettingsRequest(i)
  \/ \E i \in DOMAIN txQueue : ClearMessagesRequest(i)
  \/ \E i \in DOMAIN txQueue : GetRequest(i)
  \/ \E i \in DOMAIN txQueue : PutRequest(i)
  \/ \E i \in DOMAIN txQueue : AddRequest(i)
  \/ \E i \in DOMAIN txQueue : LoadGetRequest(i)
  \/ \E i \in DOMAIN txQueue : CursorRequest(i)

SpecClear == Init /\ [][NextClear]_vars

\* the count query and its callers
NextCount ==
  \/ AddMessage({0})
  \/ CallDeleteMessages
  \/ CallGetMessageCount
  \/ GetMessageCount
  \/ CallGetStorageInfo
  \/ \E i \in DOMAIN txQueue : AddRequest(i)
  \/ \E i \in DOMAIN txQueue : DeleteCursorRequest(i)
  \/ \E i \in DOMAIN txQueue : CountRequest(i)

SpecCount == Init /\ [][NextCount]_vars

\* the settings load of useSettings over every state its three stores may
\* be in
NextLoad ==
  \/ PriorSessions(FlatModes, FlatBlobs, StoredRows, RemoteStates)
  \/ LoadSettings
  \/ LoadProceed
  \/ RemoteSelect
  \/ LoadSynced
  \/ LoadCaught
  \/ \E i \in DOMAIN txQueue : LoadGetRequest(i)
  \/ \E i \in DOMAIN txQueue : GetRequest(i)
  \/ \E i \in DOMAIN txQueue : PutRequest(i)

SpecLoad == Init /\ [][NextLoad]_vars

\* the saves of useSettings after a load
NextUpdate ==
  \/ PriorSessions(FlatModes, {NoBlob}, {{}, {StoredRow(SettingsB)}}, RemoteStates)
  \/ LoadSettings
  \/ LoadProceed
  \/ RemoteSelect
  \/ LoadSynced
  \/ LoadCaught
  \/ UpdateSettings({SettingsA, SettingsB})
  \/ UpdateProceed
  \/ RemoteUpsert
  \/ \E i \in DOMAIN txQueue : LoadGetRequest(i)
  \/ \E i \in DOMAIN txQueue : GetRequest(i)
  \/ \E i \in DOMAIN txQueue : PutRequest(i)

SpecUpdate == Init /\ [][NextUpdate]_vars

\* sendMessage after a settings load from the flat backup, with loads of the
\* stored messages
NextSend ==
  \/ PriorSessions({"ok"}, {NoBlob, Stringify(SettingsA)}, {{}},
                   {[configured |-> FALSE, row |-> {}]})
  \/ LoadSettings
  \/ LoadProceed
  \/ LoadCaught
  \/ Tick
  \/ SendMessage({"hi"})
  \/ \E k \in DOMAIN sends : SendProceed(k)
  \/ \E k \in DOMAIN sends : FetchResponse(k)
  \/ \E k \in DOMAIN sends : SendFinish(k)
  \/ CallLoadMessagesLater
  \/ \E i \in DOMAIN txQueue : LoadGetRequest(i)
  \/ \E i \in DOMAIN txQueue : AddRequest(i)
  \/ \E i \in DOMAIN txQueue : CursorRequest(i)

SpecSend == Init /\ [][NextSend]_vars

\* a browser without IndexedDB
InitUnsupported == Init /\ ~supported

\* every caller of the object stores (useSettings, useMessages, the storage
\* info and the clear-data button of the settings dialog) where IndexedDB is
\* not supported
NextGate ==
  \/ PriorSessions({"ok", "full"}, {NoBlob, Stringify(SettingsA)}, {{}},
                   RemoteStates)
  \/ LoadSettings
  \/ LoadProceed
  \/ RemoteSelect
  \/ UpdateSettings({SettingsB})
  \/ UpdateProceed
  \/ RemoteUpsert
  \/ AddMessage({0})
  \/ GetMessageCount
  \/ CallGetStorageInfo
  \/ MountLoadMessages
  \/ AddMessages(Batches)
  \/ ClearMessages
  \/ HandleClearData

SpecGate == InitUnsupported /\ [][NextGate]_vars

\* saves of the settings, reloads of the page and the loads after them, with
\* the remote store not configured
NextReload ==
  \/ LoadSettings
  \/ LoadProceed
  \/ LoadCaught
  \/ UpdateSettings({SettingsA, SettingsB})
  \/ UpdateProceed
  \/ Reload
  \/ \E i \in DOMAIN txQueue : LoadGetRequest(i)
  \/ \E i \in DOMAIN txQueue : GetRequest(i)
  \/ \E i \in DOMAIN txQueue : PutRequest(i)

SpecReload == Init /\ [][NextReload]_vars

\* batches of messages, clears and the load of the messages at mount
NextBatch ==
  \/ MountLoadMessages
  \/ LoadMessagesProceed
  \/ AddMessages(Batches)
  \/ AddMessagesProceed
  \/ ClearMessages
  \/ ClearMessagesProceed
  \/ \E i \in DOMAIN txQueue : AddRequest(i)
  \/ \E i \in DOMAIN txQueue : CursorRequest(i)
  \/ \E i \in DOMAIN txQueue : DeleteCursorRequest(i)

SpecBatch == Init /\ [][NextBatch]_vars

\* every step of the model
Next ==
  \/ NextOrder
  \/ NextLimit
  \/ NextDelete
  \/ NextSettings
  \/ NextClear
  \/ NextCount
  \/ NextLoad
  \/ NextUpdate
  \/ NextSend
  \/ NextGate
  \/ NextReload
  \/ NextBatch
  \/ ClearDataProceed

Spec == Init /\ [][Next]_vars

\* =================================================================
\* The claims
\* =================================================================
RowsOf(store, userId) == {r \in store : r.user_id = userId}

SameSettings(row, sv) ==
  /\ row.api_key = sv.api_key
  /\ row.base_url = sv.base_url
  /\ row.model = sv.model

LoadedSettings(r) == r.op = "loadSettings" /\ r.settle = "resolved"

SavedSettings(r) == r.op = "saveSettings" /\ r.settle = "resolved"

LoadedMessages(r) == r.op = "loadMessages" /\ r.settle = "resolved"

\* C1: a loadSettings(userId) that follows a resolved saveSettings(userId, s)
\* with no other write to the user's settings in between answers a row whose
\* api_key, base_url and model are those of s.
C1_SaveThenLoad ==
  (LoadedSettings(answer) /\ lastSaved[answer.user] # NoSettings) =>
    /\ answer.found # {}
    /\ \A row \in answer.found : SameSettings(row, lastSaved[answer.user])

\* C1 witness: a load answers the row of a user whose settings were saved
\* more than once, the last time with the values "B"
C1_Witness ==
  /\ LoadedSettings(answer)
  /\ lastSaved[answer.user].api_key = "B"
  /\ \E row \in answer.found : row.created_at < row.updated_at

\* C2: whatever saveSettings, deleteSettings and clearAllData calls ran or
\* are in flight, the settings store holds at most one row per user_id, and
\* exactly one for the user of a saveSettings that has just resolved.
C2_OneRowPerUser ==
  /\ \A u \in Users : Cardinality(RowsOf(settingsStore, u)) <= 1
  /\ SavedSettings(answer) =>
       Cardinality(RowsOf(settingsStore, answer.user)) = 1

\* C2 witness: a saveSettings that found the user's row resolves while a
\* second saveSettings for the same user, issued before it resolved, waits
C2_Witness ==
  /\ SavedSettings(answer)
  /\ answer.found # {}
  /\ \E i \in DOMAIN txQueue :
       txQueue[i].op = "saveSettings" /\ txQueue[i].user = answer.user

\* C3: the put of a saveSettings(userId, s) that found a row for userId
\* leaves that row's id and created_at as they were and gives api_key,
\* base_url, model and updated_at their new values; when it found none the
\* row it inserts has a primary key no row had.  No other row changes.
C3_UpsertFrame ==
  [][ SavedSettings(answer') =>
        LET u   == answer'.user
            old == RowsOf(settingsStore, u)
            new == RowsOf(settingsStore', u)
        IN  /\ settingsStore' \ new = settingsStore \ old
            /\ Cardinality(new) = 1
            /\ \A n \in new :
                 /\ SameSettings(n, answer'.sv)
                 /\ n.updated_at = answer'.now
                 /\ IF old # {}
                      THEN \A o \in old : n.id = o.id /\ n.created_at = o.created_at
                      ELSE /\ n.id \notin {r.id : r \in settingsStore}
                           /\ n.created_at = answer'.now
    ]_vars

\* C3 witness: a saveSettings has overwritten a row written at an earlier
\* time with other values, next to a row of the other user
C3_Witness ==
  /\ SavedSettings(answer)
  /\ \E e \in answer.found : ~SameSettings(e, answer.sv)
  /\ \E row \in RowsOf(settingsStore, answer.user) :
       row.created_at < row.updated_at
  /\ \E row \in settingsStore : row.user_id # answer.user

RowIds(rows) == [i \in DOMAIN rows |-> rows[i].id]

RowOf(id) == CHOOSE r \in msgStore : r.id = id

\* the ids of the user's stored messages, in the order of their saves
SavesOf(userId) ==
  SelectSeq(savedOrder, LAMBDA id : RowOf(id).user_id = userId)

StrictlyIncreasing(ids) ==
  \A i \in DOMAIN ids : \A j \in DOMAIN ids :
    i < j => RowOf(ids[i]).timestamp < RowOf(ids[j]).timestamp

\* C4: loadMessages(userId) answers the messages in non-decreasing order of
\* timestamp, and when the timestamps of the user's saves are strictly
\* increasing it answers them in the order of the saves.
C4_LoadOrder ==
  (LoadedMessages(answer) /\ ~answer.hasLimit) =>
    LET rows == answer.rows
    IN  /\ \A i \in DOMAIN rows : \A j \in DOMAIN rows :
             i < j => rows[i].timestamp <= rows[j].timestamp
        /\ StrictlyIncreasing(SavesOf(answer.user)) =>
             RowIds(rows) =
               SelectSeq(SavesOf(answer.user),
                         LAMBDA id : \E k \in DOMAIN rows : rows[k].id = id)

\* C4 witness: a load answers every message saved for the user, two of them
\* with increasing timestamps and decreasing ids
C4_Witness ==
  /\ LoadedMessages(answer)
  /\ Len(answer.rows) >= 2
  /\ Len(answer.rows) = Len(SavesOf(answer.user))
  /\ StrictlyIncreasing(SavesOf(answer.user))
  /\ answer.rows[1].id > answer.rows[2].id

\* C5: loadMessages(userId, limit) answers at most limit messages, and they
\* are the first of what loadMessages(userId) would answer at that moment.
C5_LimitPrefix ==
  (LoadedMessages(answer) /\ answer.hasLimit) =>
    /\ Len(answer.rows) <= answer.limit
    /\ answer.rows =
         SubSeq(LoadMessagesResult(msgStore, answer.user, answer.now, FALSE, 0),
                1, Len(answer.rows))

\* C6: loadMessages(userId) without a limit answers, once each, exactly the
\* stored messages of userId whose timestamp is at least 0 and at most the
\* time the call read.
C6_LoadRange ==
  (LoadedMessages(answer) /\ ~answer.hasLimit) =>
    LET expected == {r \in msgStore : /\ r.user_id = answer.user
                                      /\ r.timestamp >= 0
                                      /\ r.timestamp <= answer.now}
    IN  /\ {answer.rows[i] : i \in DOMAIN answer.rows} = expected
        /\ Len(answer.rows) = Cardinality(expected)

\* C6 witness: a load answers a message and leaves out a message of the same
\* user stamped later than the call
C6_Witness ==
  /\ LoadedMessages(answer)
  /\ ~answer.hasLimit
  /\ answer.rows # <<>>
  /\ \E r \in msgStore : r.user_id = answer.user /\ r.timestamp > answer.now

CountedMessages(r) == r.op = "getMessageCount" /\ r.settle = "resolved"

DeletedMessages(r) == r.op = "deleteMessages" /\ r.settle = "resolved"

C7_AfterDelete ==
  /\ DeletedMessages(answer) => RowsOf(msgStore, answer.user) = {}
  /\ (LoadedMessages(answer) /\ emptied[answer.user]) => answer.rows = <<>>
  /\ (CountedMessages(answer) /\ emptied[answer.user]) => answer.count = 0

\* C7: once deleteMessages(userId) has resolved and no message of the user
\* was saved since, loadMessages(userId) answers the empty sequence and
\* getMessageCount(userId) answers 0; a deleteMessages that finds no message
\* of the user resolves and leaves the store as it was.
C7_DeleteMessages ==
  /\ []C7_AfterDelete
  /\ [][ (DeletedMessages(answer') /\ RowsOf(msgStore, answer'.user) = {})
           => msgStore' = msgStore ]_vars

\* C7 witness: after a deleteMessages for a user who has messages stamped
\* after the call, getMessageCount answers 0 while the other user's message
\* is still stored
C7_Witness ==
  /\ CountedMessages(answer)
  /\ emptied[answer.user]
  /\ answer.count = 0
  /\ msgStore # {}

ClearCalls ==
  {r \in {answer} \cup {txQueue[i] : i \in DOMAIN txQueue} : r.op = "clearAllData"}

\* C8: the promise of clearAllData is resolved only when both the clear of
\* the settings store and the clear of the messages store have succeeded.
C8_ResolvedAfterBoth ==
  \A r \in ClearCalls : r.settle = "resolved" => r.reqS = "ok" /\ r.reqM = "ok"

\* C8 witness: clearAllData resolves after clearing a settings store that
\* held a row
C8_Witness ==
  /\ answer.op = "clearAllData"
  /\ answer.settle = "resolved"
  /\ answer.undo # {}
  /\ answer.completed = total

\* C9: once clearAllData has resolved and nothing was written since,
\* loadSettings answers null and loadMessages the empty sequence, for every
\* user.
C9_AfterClear ==
  wiped =>
    /\ LoadedSettings(answer) => answer.found = {}
    /\ LoadedMessages(answer) => answer.rows = <<>>
    /\ settingsStore = {}
    /\ msgStore = {}

\* C9 witness: a loadMessages resolves after a clearAllData and no write
C9_Witness ==
  /\ wiped
  /\ LoadedMessages(answer)
  /\ answer.user = "u2"

\* C10 as stated: a getMessageCount that met a failure of the store answers 0
\* to its caller.
C10_ZeroOnFailure ==
  (answer.op = "getMessageCount" /\ answer.caller \in {"direct", "hook"}
     /\ answer.fault) =>
    /\ answer.wsettle = "resolved"
    /\ answer.wcount = 0

\* C10, amended: getMessageCount(userId) resolves with the number of stored
\* messages of userId; on a failure of the store LocalDatabase.getMessageCount
\* rejects, and its callers catch: useMessages.getMessageCount resolves with
\* the length of the in-memory message list (also when IndexedDB is not
\* supported) and getStorageInfo resolves with a fixed label.
C10_CountOrFallback ==
  answer.op = "getMessageCount" =>
    /\ answer.settle = "resolved" =>
         /\ answer.count = Cardinality(RowsOf(msgStore, answer.user))
         /\ answer.wsettle = "resolved"
         /\ answer.wcount = answer.count
    /\ (answer.caller = "direct" /\ answer.fault) => answer.wsettle = "rejected"
    /\ (answer.caller = "hook" /\ answer.settle # "resolved") =>
         /\ answer.wsettle = "resolved"
         /\ answer.wcount = answer.memLen
    /\ (answer.caller = "modal" /\ answer.settle # "resolved") =>
         /\ answer.wsettle = "resolved"
         /\ answer.wtext = IF answer.fault THEN "IndexedDB + localStorage"
                                           ELSE "localStorage only"

\* C10 witness: the store fails a count that useMessages.getMessageCount
\* asked for while the message list holds a message
C10_Witness ==
  /\ answer.op = "getMessageCount"
  /\ answer.caller = "hook"
  /\ answer.fault
  /\ answer.wcount > 0

\* the load of useSettings has finished after the remote step gave no row
\* (the query answered an error or no row, or threw, or `supabase` is null)
LoadedWithoutRemoteRow ==
  /\ loadP.pc = "done"
  /\ loadP.remote \in {"error", "norow", "throws", "unconfigured"}

\* the user's record as the load's last read of the object store got it
ObjectStoreRecord ==
  IF supported /\ loadP.readOk
    THEN {r \in settingsStore : r.user_id = UserId}
    ELSE {}

\* the value of the flat backup: its blob over the defaults
FlatBackupValue ==
  IF flat.mode # "denied" /\ flat.blob.kind = "json"
    THEN [f \in Fields |->
            IF \E pr \in flat.blob.pairs : pr[1] = f
              THEN (CHOOSE pr \in flat.blob.pairs : pr[1] = f)[2]
              ELSE DEFAULT_SETTINGS[f]]
    ELSE DEFAULT_SETTINGS

LoadedRemoteRow == loadP.pc = "done" /\ loadP.remote = "row"

RemoteValues ==
  LET data == CHOOSE data \in remote.row : TRUE
  IN  [apiKey |-> data.api_key, baseUrl |-> data.base_url, model |-> data.model]

ObjectStoreShows(s) ==
  /\ supported
  /\ \E r \in settingsStore : r.user_id = UserId
  /\ \A r \in settingsStore :
       r.user_id = UserId =>
         r.api_key = s.apiKey /\ r.base_url = s.baseUrl /\ r.model = s.model

C13_AdoptedBeforeStoreRead ==
  (loadP.pc = "dbRead" /\ loadP.localSettings.apiKey # "") =>
    settings = loadP.localSettings

\* C16: a settings load never raises to its caller: it ends with isLoading
\* false and the in-memory settings a complete Settings value.
C16_LoadNeverRaises ==
  loadP.pc = "done" =>
    /\ ~loadP.raised
    /\ isLoading = FALSE
    /\ DOMAIN settings = Fields

UpdateEnded == updP.pc = "done"

\* C14: an updateSettings(newSettings) call that has ended wrote the flat
\* backup, then the object store (when it is supported), then set the
\* in-memory settings to newSettings, whatever became of the store write.
C14_SaveOrder ==
  UpdateEnded =>
    /\ updP.steps \in {<<"flat", "store", "memory">>, <<"flat", "memory">>}
    /\ ("store" \in {updP.steps[i] : i \in DOMAIN updP.steps}) = supported

\* C15: updateSettings attempts the remote upsert only when the remote store
\* is configured, and its promise never rejects.
C15_NeverRejects ==
  /\ updP.pc = "upsert" => remote.configured
  /\ updP.upsert # "none" => remote.configured
  /\ UpdateEnded => ~updP.raised

\* ---------------------------------------------------------------- C17
Range(seq) == {seq[i] : i \in DOMAIN seq}

\* an addMessage whose storage write is still to be acknowledged
AwaitsWrite(r) == r.op = "saveMessage" /\ r.caller \in {"hook", "send"}

\* an addMessage that has ended
AddMessageEnded(r) == AwaitsWrite(r) /\ r.pc = "done"

IsPrefix(s, t) == Len(s) <= Len(t) /\ SubSeq(t, 1, Len(s)) = s

\* C17: addMessage(m) appends m to the in-memory list before the storage
\* write is acknowledged (m is in the list while the write is in flight);
\* when the write fails, or the database cannot be opened, m is still in the
\* list, nothing is ever taken back from the list, and addMessage resolves
C17_After ==
  /\ \A j \in DOMAIN txQueue :
       AwaitsWrite(txQueue[j]) => MemMessage(txQueue[j]) \in Range(memMessages)
  /\ AddMessageEnded(answer) =>
       /\ answer.wsettle = "resolved"
       /\ MemMessage(answer) \in Range(memMessages)

C17_OptimisticAppend ==
  /\ []C17_After
  /\ [][IsPrefix(memMessages, memMessages')]_vars

\* the write of an assistant message was rejected: the message is in memory
\* and not in the store, and addMessage resolved
C17_Witness ==
  /\ AddMessageEnded(answer)
  /\ answer.fault
  /\ answer.role = "assistant"
  /\ answer.wsettle = "resolved"
  /\ MemMessage(answer) \in Range(memMessages)
  /\ ~\E row \in msgStore : row.role = "assistant"

\* ---------------------------------------------------------------- C18
\* the rows a loadMessages of the user answered with
LoadedLater(r) == LoadedMessages(r) /\ r.user = UserId

\* the messages of the in-memory list that rows of the store were written from
Projection(rows) == [i \in DOMAIN rows |-> [role |-> rows[i].role,
                                             content |-> rows[i].content,
                                             timestamp |-> rows[i].timestamp]]

\* the first n rows written to the store, in the order of their writes, which
\* is the order their appends were called in
WrittenFirst(n) == [i \in 1..n |-> RowOf(savedOrder[i])]

\* C18: for any sequence of appends of one tab, overlapping sendMessage
\* calls included, the in-memory list holds the messages in call order (it
\* only grows at its end) and a later loadMessages returns the stored
\* messages in the order their appends were called, which is the order
\* their writes were made in (savedOrder)
C18_CallOrder ==
  /\ [][IsPrefix(memMessages, memMessages')]_vars
  /\ [](LoadedLater(answer) =>
          Projection(answer.rows) = Projection(WrittenFirst(Len(answer.rows))))

\* ---------------------------------------------------------------- C19
\* one sendMessage has run to its end on a 200 response with the content
\* "hello", and both of its writes were acknowledged
SentHello ==
  /\ Len(sends) = 1
  /\ sends[1].pc = "done"
  /\ Len(memMessages) = 2
  /\ memMessages[1].role = "user"
  /\ memMessages[2] = [role |-> "assistant", content |-> "hello",
                       timestamp |-> memMessages[2].timestamp]
  /\ Cardinality(msgStore) = 2

\* C19: after a sendMessage with an API key and a 200 response whose content
\* is "hello", loadMessages returns exactly two messages: the user message
\* first, then an assistant message with the content "hello"
C19_UserThenAssistant ==
  (LoadedLater(answer) /\ SentHello) =>
     Projection(answer.rows) = memMessages

\* ---------------------------------------------------------------- C20
\* the fetch of a sendMessage has just been answered with a non-2xx response
NonOkAnswered(r) == r.op = "fetch" /\ r.response.kind = "http"

\* the error shown contains the error message text the response carries:
\* error.message of its body, else message of its body
ShowsErrorText(error, response) ==
  /\ response.errorMessage # "" => response.errorMessage \in Range(error)
  /\ (response.errorMessage = "" /\ response.message # "") =>
        response.message \in Range(error)

\* C20: a non-2xx completion response makes sendMessage set one error, which
\* contains the error message text of the response; no message is appended
\* to memory, none is written to storage, and the user message stays
C20_ErrorShown ==
  [][NonOkAnswered(answer') =>
       /\ app'.error # NoError
       /\ ShowsErrorText(app'.error, answer'.response)
       /\ sends[answer'.proc].pc = "fetch" /\ sends'[answer'.proc].pc = "done"
       /\ memMessages' = memMessages
       /\ msgStore' = msgStore
       /\ txQueue' = txQueue
       /\ \E i \in DOMAIN memMessages' :
            memMessages'[i] = [role |-> "user",
                               content |-> sends[answer'.proc].content,
                               timestamp |-> memMessages'[i].timestamp]]_vars

\* a 401 whose body carries error.message "bad key" was answered: the error
\* shows it, and the list holds the user message and no assistant message
C20_Witness ==
  /\ NonOkAnswered(answer)
  /\ answer.response.errorMessage = "bad key"
  /\ app.error = <<"401", " Error: ", "bad key">>
  /\ sends[answer.proc].pc = "done"
  /\ memMessages # <<>>
  /\ \A i \in DOMAIN memMessages : memMessages[i].role = "user"

\* ---------------------------------------------------------------- C24
\* the settings load has ended with an empty API key
NoApiKey == loadP.pc = "done" /\ settings.apiKey = ""

\* C24: while the in-memory settings have an empty API key, a sendMessage
\* appends nothing to memory or storage, starts no write and no completion
\* request (no send is in progress), and changes the App state only by
\* setting the "configure your API key" error and opening the settings dialog
C24_OnlyConfigureError ==
  [][NoApiKey =>
       /\ memMessages' = memMessages
       /\ msgStore' = msgStore
       /\ sends' = sends
       /\ \A j \in DOMAIN txQueue' : txQueue'[j].op # "saveMessage"
       /\ \/ app' = app
          \/ app' = [app EXCEPT !.error = ConfigureError,
                                !.isSettingsOpen = TRUE]]_vars

\* sendMessage ran with an empty API key
C24_Witness ==
  /\ NoApiKey
  /\ app.error = ConfigureError
  /\ app.isSettingsOpen
  /\ memMessages = <<>>
  /\ msgStore = {}
  /\ sends = <<>>

\* ---------------------------------------------------------------- C21
\* a caller has ended a step in which it would have used the object stores
CallerEnded(r) == r.op # "none" /\ r.op # "fetch" /\ r.pc = "done"

\* C21: while isSupported() is false no caller invokes an object-store
\* operation: no transaction exists and every caller's step ended with its
\* call neither resolved nor rejected, because it was not made.  The callers
\* degrade: the count is messages.length, the storage info names
\* localStorage only, appended messages are in the in-memory list only, and
\* a settings load that got no remote row ends with the flat backup merged
\* over the defaults
C21_NeverInvoked ==
  ~supported =>
    /\ txQueue = <<>>
    /\ msgStore = {} /\ settingsStore = {}
    /\ CallerEnded(answer) => answer.settle = "none"
    /\ (CallerEnded(answer) /\ answer.caller = "hook"
          /\ answer.op = "getMessageCount") => answer.wcount = Len(memMessages)
    /\ (CallerEnded(answer) /\ answer.caller = "modal") =>
          answer.wtext = "localStorage only"
    /\ (CallerEnded(answer) /\ answer.op = "saveMessage"
          /\ answer.caller = "hook") => MemMessage(answer) \in Range(memMessages)
    /\ loadP.localDbSettings = {} /\ ~loadP.readOk
    /\ (loadP.pc = "done" /\ loadP.remote # "row" /\ updP.pc = "idle") =>
          settings = loadP.localSettings

\* without IndexedDB an addMessage ended with the message in memory and no
\* write made, after a settings load that took the flat backup
C21_Witness ==
  /\ ~supported
  /\ CallerEnded(answer)
  /\ answer.op = "saveMessage"
  /\ answer.caller = "hook"
  /\ answer.settle = "none"
  /\ MemMessage(answer) \in Range(memMessages)
  /\ loadP.pc = "done"
  /\ settings = SettingsA

\* ---------------------------------------------------------------- C22
\* a load after a reload has ended, the last updateSettings resolved and
\* saved a non-empty API key, and the remote store is not configured
LoadedAfterSave ==
  /\ loadP.pc = "done"
  /\ loadP.reloaded
  /\ ~remote.configured
  /\ updP.pc = "done"
  /\ ~updP.raised
  /\ updP.newSettings.apiKey # ""

\* C22: after updateSettings(X) with a non-empty X.apiKey has resolved, the
\* next settings load with the remote store not configured ends with the
\* in-memory settings X, also when the object-store write of X failed and
\* the object store still holds an older row with a non-empty API key
C22_NextLoadShowsSaved ==
  LoadedAfterSave => settings = updP.newSettings

\* ---------------------------------------------------------------- C23
\* an addMessages is in progress or has ended
InBatch == taskP.op = "saveMessage" /\ taskP.pc # "idle"

BatchEnded == InBatch /\ taskP.pc = "done"

\* the saves of the batch that were acknowledged
SavedOfBatch ==
  IF taskP.next = 0 THEN 0
  ELSE IF taskP.pc \in {"settled", "done"} /\ taskP.ok THEN taskP.next
  ELSE taskP.next - 1

\* the last n messages of a list
LastN(seq, n) == SubSeq(seq, Len(seq) - n + 1, Len(seq))

\* the saves of the task that are in flight
BatchSaves ==
  {j \in DOMAIN txQueue : txQueue[j].caller = "task"
                            /\ txQueue[j].op = "saveMessage"}

\* C23, in every state: from the first step of addMessages(batch) on, the
\* in-memory list ends with the whole batch; at most one save of the batch
\* is in flight, that of the message the loop is at; and the rows written
\* last are the first messages of the batch, as many as saves were
\* acknowledged, in batch order
C23_During ==
  InBatch =>
    /\ Len(memMessages) >= Len(taskP.batch)
    /\ LastN(memMessages, Len(taskP.batch)) = taskP.batch
    /\ Cardinality(BatchSaves) <= 1
    /\ \A j \in BatchSaves :
         /\ taskP.pc = "await"
         /\ MemMessage(txQueue[j]) = taskP.batch[taskP.next]
    /\ Len(savedOrder) >= SavedOfBatch
    /\ Projection([i \in 1..SavedOfBatch |->
                     RowOf(LastN(savedOrder, SavedOfBatch)[i])])
         = SubSeq(taskP.batch, 1, SavedOfBatch)

\* C23: addMessages(batch) appends the whole batch to memory at once and
\* saves its messages one by one in batch order; once the save of the k-th
\* message has failed the loop has ended, nothing more is saved, and the
\* store has gained exactly the first k-1 messages while memory holds all
C23_BatchPrefix ==
  /\ []C23_During
  /\ [][(InBatch /\ taskP.pc = "settled" /\ ~taskP.ok) =>
          /\ taskP'.pc \in {"settled", "done"}
          /\ msgStore' = msgStore
          /\ txQueue' = txQueue]_vars
  /\ [][(BatchEnded /\ BatchEnded') => msgStore' = msgStore]_vars

\* the save of the second message of a batch of two failed: the store holds
\* the first message only, memory both
C23_Witness ==
  /\ BatchEnded
  /\ ~taskP.ok
  /\ taskP.next = 2
  /\ Len(taskP.batch) = 2
  /\ memMessages = taskP.batch
  /\ {[role |-> row.role, content |-> row.content] : row \in msgStore}
       = {[role |-> "user", content |-> "b1"]}

====
